---- MODULE Spec2Model ----
(***************************************************************************)
(* compare_assemblies.py: classification of assembled (test) transcripts   *)
(* against reference transcripts.  The state is one run of                 *)
(* compare_assemblies over the transcripts of one chromosome of the sorted *)
(* merged GTF file: the overlapping pass (compare_locus + choose_best per  *)
(* test transcript), then the nearest-neighbor pass                        *)
(* (find_nearest_transcripts + choose_best per deferred transcript).       *)
(***************************************************************************)
EXTENDS Integers, Sequences, FiniteSets, TLC

\* ------------------------------------------------------------- bounds
\* Coordinates are 0..MaxPos; a transcript has at most MaxExons exons.
MaxPos == 3
MaxExons == 2
\* The same for the inputs of SpecPair (two transcripts)
PairMaxPos == 5
PairMaxExons == 3
\* and the coordinates of SpecNearest (single-exon references).
NearMaxPos == 5
\* The inputs of SpecRestart: single-exon transcripts with coordinates in
\* 0..RestartMaxPos, and at most MaxInvocations invocations on them.
RestartMaxPos == 2
MaxInvocations == 3

\* line 41
MAX_LOCUS_DIST == 100000000

Strands == {"+", "-"}
\* gene ids of reference transcripts; every test transcript has gene id 0
RefGeneIds == {1, 2}

\* ------------------------------------------------------------ Category
\* assemblyline.lib.base.Category: a closed enumeration (spec section 3).
SAME_STRAND == "SAME_STRAND"
OPP_STRAND == "OPP_STRAND"
INTRONIC_SAME_STRAND == "INTRONIC_SAME_STRAND"
INTRONIC_OPP_STRAND == "INTRONIC_OPP_STRAND"
INTERLEAVING_SAME_STRAND == "INTERLEAVING_SAME_STRAND"
INTERLEAVING_OPP_STRAND == "INTERLEAVING_OPP_STRAND"
ENCOMPASSING_SAME_STRAND == "ENCOMPASSING_SAME_STRAND"
ENCOMPASSING_OPP_STRAND == "ENCOMPASSING_OPP_STRAND"
INTERGENIC == "INTERGENIC"
READ_THROUGH == "READ_THROUGH"
\* The value of a field that was never set (MatchStats.__init__, line 62).
None == -1

\* Category.to_str: the label written in the category column.  The spec
\* gives one enumeration for the stored category and for the constants
\* choose_best compares it with, so the label of a constant is that constant.
to_str(c) == c

\* cmp_strand (assemblyline.lib.transcript): same direction or not.
cmp_strand(a, b) == a = b

\* ------------------------------------------------------------- helpers
Range(s) == {s[i] : i \in DOMAIN s}

RECURSIVE SumSeq(_)
SumSeq(s) == IF s = <<>> THEN 0 ELSE Head(s) + SumSeq(Tail(s))

RECURSIVE Flatten(_)
Flatten(ss) == IF ss = <<>> THEN <<>> ELSE Head(ss) \o Flatten(Tail(ss))

\* the sequence F(s[1]), ..., F(s[Len(s)])
MapSeq(s, F(_)) == SubSeq([i \in 1..Len(s) |-> F(s[i])], 1, Len(s))

Min(a, b) == IF a < b THEN a ELSE b
Abs(x) == IF x < 0 THEN -x ELSE x

\* The elements of a finite set of integers in ascending order.
RECURSIVE SortedSeq(_)
SortedSeq(S) ==
  IF S = {} THEN <<>>
  ELSE LET m == CHOOSE x \in S : \A y \in S : x <= y
       IN <<m>> \o SortedSeq(S \ {m})

\* The elements of a finite set in some fixed order.
RECURSIVE SetToSeq(_)
SetToSeq(S) ==
  IF S = {} THEN <<>>
  ELSE LET m == CHOOSE x \in S : TRUE
       IN <<m>> \o SetToSeq(S \ {m})

Permutations1(n) == {p \in [1..n -> 1..n] : \A i, j \in 1..n : p[i] = p[j] => i = j}

\* ---------------------------------------------------------- Transcript
\* The exon lists of a transcript: exons sorted, non-overlapping, separated
\* by introns, with coordinates in 0..maxpos.
ExonListsOf(maxpos, maxexons) ==
  LET Exons == {x \in (0..maxpos) \X (0..maxpos) : x[1] < x[2]}
  IN UNION {{x \in [1..n -> Exons] : \A i \in 1..(n-1) : x[i][2] < x[i+1][1]}
            : n \in 1..maxexons}

t_start(t) == t.exons[1][1]
t_end(t) == t.exons[Len(t.exons)][2]
\* Transcript.length: the sum of the exon spans.
t_length(t) == SumSeq(MapSeq(t.exons, LAMBDA x : x[2] - x[1]))
\* Transcript.iterintrons: the gaps between consecutive exons.
iterintrons(t) == [i \in 1..(Len(t.exons) - 1) |-> <<t.exons[i][2], t.exons[i+1][1]>>]
\* the (strand, start, end) introns of a transcript, in order
splicing_pattern(t) == MapSeq(iterintrons(t), LAMBDA x : <<t.strand, x[1], x[2]>>)

\* find_exon_boundaries: every exon start and end of the locus.
find_exon_boundaries(ts) ==
  UNION {UNION {{ts[i].exons[j][1], ts[i].exons[j][2]} : j \in DOMAIN ts[i].exons}
         : i \in DOMAIN ts}

\* split_exons: each exon cut at every boundary strictly inside it.
split_exon(x, boundaries) ==
  LET cuts == SortedSeq({x[1], x[2]} \cup {p \in boundaries : x[1] < p /\ p < x[2]})
  IN [i \in 1..(Len(cuts) - 1) |-> <<cuts[i], cuts[i+1]>>]

split_exons(t, boundaries) ==
  Flatten(MapSeq(t.exons, LAMBDA x : split_exon(x, boundaries)))

\* ------------------------------------------------------- compare_locus
\* lines 146-167: reference and test transcripts of the locus, in order
ref_transcripts(ts) == SelectSeq(ts, LAMBDA t : t.ref)
test_transcripts(ts) == SelectSeq(ts, LAMBDA t : ~t.ref)

\* Interval(start, end, strand, value)
Interval(start, end, strand, value) ==
  [start |-> start, end |-> end, strand |-> strand, value |-> value]

\* IntervalTree.find(start, end): the intervals overlapping [start, end)
find(tree, start, end) ==
  SelectSeq(tree, LAMBDA iv : iv.start < end /\ iv.end > start)

\* lines 139-172: what compare_locus indexes of the locus before it
\* classifies: the boundaries, each reference with its nodes and its
\* splicing pattern, and the interval tree of reference introns (one
\* interval per key of ref_intron_dict, its value the references with that
\* intron).
locus_index(ts) ==
  LET boundaries == find_exon_boundaries(ts)
      refs == MapSeq(ref_transcripts(ts),
                LAMBDA r : [t |-> r, nodes |-> Range(split_exons(r, boundaries)),
                            pattern |-> splicing_pattern(r)])
      keys == UNION {Range(refs[i].pattern) : i \in DOMAIN refs}
  IN [boundaries |-> boundaries,
      refs |-> refs,
      intron_tree |-> MapSeq(SetToSeq(keys),
         LAMBDA k : Interval(k[2], k[3], k[1],
                      MapSeq(SelectSeq(refs, LAMBDA r : k \in Range(r.pattern)),
                             LAMBDA r : r.t)))]

\* ref_dict[ref_id] (line 152): the last reference stored under this id
ref_dict(idx, ref_id) ==
  LET stored == SelectSeq(idx.refs, LAMBDA r : r.t.transcript_id = ref_id)
  IN stored[Len(stored)].t

\* ref_node_dict[n]: the references owning a node with these bounds (155-156)
ref_node_dict(idx, n) ==
  MapSeq(SelectSeq(idx.refs, LAMBDA r : n \in r.nodes), LAMBDA r : r.t)

\* ref_intron_dict[intron]: the references with this (strand,start,end) intron
ref_intron_dict(idx, intron) ==
  MapSeq(SelectSeq(idx.refs, LAMBDA r : intron \in Range(r.pattern)), LAMBDA r : r.t)

\* ref_splicing_patterns keyed by the first intron of the pattern
ref_splicing_patterns_first_intron(idx, pattern) ==
  MapSeq(SelectSeq(idx.refs, LAMBDA r : Len(r.pattern) > 0 /\ Len(pattern) > 0
                                        /\ r.pattern[1] = pattern[1]),
         LAMBDA r : r.t)

\* ref_splicing_patterns[pattern]: empty patterns are not indexed (164-165)
ref_splicing_patterns(idx, pattern) ==
  MapSeq(SelectSeq(idx.refs, LAMBDA r : Len(r.pattern) > 0 /\ r.pattern = pattern),
         LAMBDA r : r.t)

\* node_events without the query of the intron tree
node_events_exact_only(idx, t, n) ==
  MapSeq(ref_node_dict(idx, n),
         LAMBDA ref : [ref_id |-> ref.transcript_id, n |-> n,
                       c |-> IF cmp_strand(t.strand, ref.strand)
                             THEN SAME_STRAND ELSE OPP_STRAND])

\* lines 184-204: the appends m.nodes[c].append(n) made for node n, in order
node_events(idx, t, n) ==
  MapSeq(ref_node_dict(idx, n),
         LAMBDA ref : [ref_id |-> ref.transcript_id, n |-> n,
                       c |-> IF cmp_strand(t.strand, ref.strand)
                             THEN SAME_STRAND ELSE OPP_STRAND])
  \o Flatten(MapSeq(find(idx.intron_tree, n[1], n[2]),
       LAMBDA hit : MapSeq(hit.value,
         LAMBDA ref : [ref_id |-> ref.transcript_id, n |-> n,
                       c |-> IF cmp_strand(t.strand, hit.strand)
                             THEN INTRONIC_SAME_STRAND ELSE INTRONIC_OPP_STRAND])))

\* lines 206-211: the appends m.introns.append(intron), in order
intron_events(idx, t) ==
  Flatten(MapSeq(splicing_pattern(t),
    LAMBDA intron : MapSeq(ref_intron_dict(idx, intron),
      LAMBDA ref : [ref_id |-> ref.transcript_id, intron |-> intron])))

\* lines 213-218: the references whose match is marked spliced
splicing_events(idx, t) ==
  IF Len(splicing_pattern(t)) > 0
  THEN MapSeq(ref_splicing_patterns(idx, splicing_pattern(t)),
              LAMBDA ref : ref.transcript_id)
  ELSE <<>>

NodeCategories == {SAME_STRAND, OPP_STRAND, INTRONIC_SAME_STRAND, INTRONIC_OPP_STRAND}

\* matches with an accumulator for every reference of the locus
matches_of_every_ref(idx, t) ==
  LET nodes == split_exons(t, idx.boundaries)
      nev == Flatten(MapSeq(nodes, LAMBDA n : node_events(idx, t, n)))
      iev == intron_events(idx, t)
      sev == splicing_events(idx, t)
      ids == {idx.refs[i].t.transcript_id : i \in DOMAIN idx.refs}
  IN [ref_id \in ids |->
       [nodes |-> [c \in NodeCategories |->
                     MapSeq(SelectSeq(nev, LAMBDA e : e.ref_id = ref_id /\ e.c = c),
                            LAMBDA e : e.n)],
        introns |-> MapSeq(SelectSeq(iev, LAMBDA e : e.ref_id = ref_id),
                           LAMBDA e : e.intron),
        splicing |-> ref_id \in Range(sev)]]

\* matches: ref_id -> Match (nodes per category, introns, splicing), as the
\* defaultdict holds it after lines 184-218
matches_of(idx, t) ==
  LET nodes == split_exons(t, idx.boundaries)
      nev == Flatten(MapSeq(nodes, LAMBDA n : node_events(idx, t, n)))
      iev == intron_events(idx, t)
      sev == splicing_events(idx, t)
      ids == {nev[i].ref_id : i \in DOMAIN nev} \cup {iev[i].ref_id : i \in DOMAIN iev}
             \cup Range(sev)
  IN [ref_id \in ids |->
       [nodes |-> [c \in NodeCategories |->
                     MapSeq(SelectSeq(nev, LAMBDA e : e.ref_id = ref_id /\ e.c = c),
                            LAMBDA e : e.n)],
        introns |-> MapSeq(SelectSeq(iev, LAMBDA e : e.ref_id = ref_id),
                           LAMBDA e : e.intron),
        splicing |-> ref_id \in Range(sev)]]

node_bp(ns) == SumSeq(MapSeq(ns, LAMBDA n : n[2] - n[1]))

AssertionError == "AssertionError"

\* decide_category with the first rule blind to same-strand shared bp
decide_category_no_bp(m, num_nodes) ==
  LET opp_strand_bp == node_bp(m.nodes[OPP_STRAND])
      num_same_strand == Len(m.nodes[SAME_STRAND])
      num_opp_strand == Len(m.nodes[OPP_STRAND])
      num_intronic_same_strand == Len(m.nodes[INTRONIC_SAME_STRAND])
      num_intronic == num_intronic_same_strand + Len(m.nodes[INTRONIC_OPP_STRAND])
  IN IF m.splicing \/ Len(m.introns) > 0 THEN SAME_STRAND
     ELSE IF opp_strand_bp > 0 THEN OPP_STRAND
     ELSE IF num_same_strand # 0 \/ num_opp_strand # 0 \/ ~(num_intronic > 0)
          THEN AssertionError
     ELSE IF num_intronic = num_nodes
          THEN (IF num_intronic_same_strand > 0
                THEN INTRONIC_SAME_STRAND ELSE INTRONIC_OPP_STRAND)
          ELSE (IF num_intronic_same_strand > 0
                THEN INTERLEAVING_SAME_STRAND ELSE INTERLEAVING_OPP_STRAND)

\* decide_category that takes any intronic node for all of them
decide_category_any_intronic(m, num_nodes) ==
  LET same_strand_bp == node_bp(m.nodes[SAME_STRAND])
      opp_strand_bp == node_bp(m.nodes[OPP_STRAND])
      num_intronic_same_strand == Len(m.nodes[INTRONIC_SAME_STRAND])
      num_intronic == num_intronic_same_strand + Len(m.nodes[INTRONIC_OPP_STRAND])
  IN IF m.splicing \/ Len(m.introns) > 0 \/ same_strand_bp > 0 THEN SAME_STRAND
     ELSE IF opp_strand_bp > 0 THEN OPP_STRAND
     ELSE IF ~(num_intronic > 0) THEN AssertionError
     ELSE IF num_intronic_same_strand > 0
          THEN INTRONIC_SAME_STRAND ELSE INTRONIC_OPP_STRAND

\* lines 225-258: the category of one (test, reference) pair
decide_category(m, num_nodes) ==
  LET same_strand_bp == node_bp(m.nodes[SAME_STRAND])
      opp_strand_bp == node_bp(m.nodes[OPP_STRAND])
      num_shared_introns == Len(m.introns)
      num_same_strand == Len(m.nodes[SAME_STRAND])
      num_opp_strand == Len(m.nodes[OPP_STRAND])
      num_intronic_same_strand == Len(m.nodes[INTRONIC_SAME_STRAND])
      num_intronic_opp_strand == Len(m.nodes[INTRONIC_OPP_STRAND])
      num_intronic == num_intronic_same_strand + num_intronic_opp_strand
  IN IF m.splicing \/ num_shared_introns > 0 \/ same_strand_bp > 0 THEN SAME_STRAND
     ELSE IF opp_strand_bp > 0 THEN OPP_STRAND
     ELSE IF num_same_strand # 0 \/ num_opp_strand # 0 \/ ~(num_intronic > 0)
          THEN AssertionError
     ELSE IF num_intronic = num_nodes
          THEN (IF num_intronic_same_strand > 0
                THEN INTRONIC_SAME_STRAND ELSE INTRONIC_OPP_STRAND)
          ELSE (IF num_intronic_same_strand > 0
                THEN INTERLEAVING_SAME_STRAND ELSE INTERLEAVING_OPP_STRAND)

\* MatchStats.from_transcript (lines 82-99)
from_transcript(t, has_ref, ref) ==
  [transcript_id |-> t.transcript_id,
   gene_id |-> t.gene_id,
   length |-> t_length(t),
   num_introns |-> Len(t.exons) - 1,
   ref_transcript_id |-> IF has_ref THEN ref.transcript_id ELSE None,
   ref_gene_id |-> IF has_ref THEN ref.gene_id ELSE None,
   ref_length |-> IF has_ref THEN t_length(ref) ELSE None,
   ref_num_introns |-> IF has_ref THEN Len(ref.exons) - 1 ELSE None,
   shared_same_strand_bp |-> None,
   shared_opp_strand_bp |-> None,
   shared_introns |-> None,
   shared_splicing |-> None,
   distance |-> None,
   category |-> "None"]

\* lines 259-267: the MatchStats of one (test, reference) pair
pair_match_stats(idx, t, ref_id, m) ==
  [from_transcript(t, TRUE, ref_dict(idx, ref_id)) EXCEPT
     !.shared_same_strand_bp = node_bp(m.nodes[SAME_STRAND]),
     !.shared_opp_strand_bp = node_bp(m.nodes[OPP_STRAND]),
     !.shared_introns = Len(m.introns),
     !.shared_splicing = IF m.splicing THEN 1 ELSE 0,
     !.category = to_str(decide_category(m, Len(split_exons(t, idx.boundaries)))),
     !.distance = 0]

\* lines 221-267: match_stats, one entry per key of matches, in the order
\* `order` in which the dict yields its keys
match_stats_of(idx, t, matches, order) ==
  MapSeq(order, LAMBDA ref_id : pair_match_stats(idx, t, ref_id, matches[ref_id]))

\* ------------------------------------------------------- choose_best
\* float(num) / den, kept exact as the pair <<num, den>>
FracLess(a, b) ==
  LET an == IF a[2] < 0 THEN <<-a[1], -a[2]>> ELSE a
      bn == IF b[2] < 0 THEN <<-b[1], -b[2]>> ELSE b
  IN an[1] * bn[2] < bn[1] * an[2]
FracEq(a, b) == a[1] * b[2] = b[1] * a[2]

Flag(b) == IF b THEN <<1, 1>> ELSE <<0, 1>>

\* lines 108-114: the three fractions of one candidate
intron_frac(m) ==
  LET total_introns == m.num_introns + m.ref_num_introns
  IN IF total_introns = 0 THEN <<0, 1>>
     ELSE <<m.shared_introns, total_introns - m.shared_introns>>
same_strand_frac(m) ==
  <<m.shared_same_strand_bp, m.length + m.ref_length - m.shared_same_strand_bp>>
opp_strand_frac(m) ==
  <<m.shared_opp_strand_bp, m.length + m.ref_length - m.shared_opp_strand_bp>>

\* a division by zero at lines 112-114
ZeroDivision(m) ==
  intron_frac(m)[2] = 0 \/ same_strand_frac(m)[2] = 0 \/ opp_strand_frac(m)[2] = 0

\* lines 115-124: the tuple appended to hits, without its last element m
hit_key(m) ==
  << <<m.shared_splicing, 1>>, intron_frac(m), same_strand_frac(m), opp_strand_frac(m),
     Flag(m.category = INTRONIC_SAME_STRAND),
     Flag(m.category = INTRONIC_OPP_STRAND),
     Flag(m.category = INTERLEAVING_SAME_STRAND),
     Flag(m.category = INTERLEAVING_OPP_STRAND),
     Flag(m.category = ENCOMPASSING_SAME_STRAND),
     Flag(m.category = ENCOMPASSING_OPP_STRAND),
     Flag(m.category = INTERGENIC),
     <<-Abs(m.distance), 1>> >>

\* tuple comparison, element by element
KeyLess(a, b) ==
  \E i \in DOMAIN a : FracLess(a[i], b[i]) /\ \A j \in 1..(i-1) : FracEq(a[j], b[j])
KeyEq(a, b) == \A i \in DOMAIN a : FracEq(a[i], b[i])

\* sort_first of an ascending sort
sort_first_ascending(lst, addr) ==
  LET hits == MapSeq(lst, hit_key)
  IN CHOOSE i \in DOMAIN lst : \A j \in DOMAIN lst \ {i} :
       \/ KeyLess(hits[i], hits[j])
       \/ KeyEq(hits[j], hits[i]) /\ addr[i] < addr[j]

\* sort_first of a stable sort on the key alone: of equal keys the first in
\* the list stays first
sort_first_stable(lst, addr) ==
  LET hits == MapSeq(lst, hit_key)
  IN CHOOSE i \in DOMAIN lst : \A j \in DOMAIN lst \ {i} :
       \/ KeyLess(hits[j], hits[i])
       \/ KeyEq(hits[j], hits[i]) /\ i < j

\* lines 130-131: hits.sort(reverse=True); hits[0][-1].  Tuples with equal
\* keys are ordered by their last element, the MatchStats object itself,
\* which Python 2 orders by address: addr[i] is the address of lst[i].
sort_first(lst, addr) ==
  LET hits == MapSeq(lst, hit_key)
  IN CHOOSE i \in DOMAIN lst : \A j \in DOMAIN lst \ {i} :
       \/ KeyLess(hits[j], hits[i])
       \/ KeyEq(hits[j], hits[i]) /\ addr[j] < addr[i]

\* lines 106, 127-128
same_strand_gene_ids(lst) ==
  {lst[i].ref_gene_id : i \in {j \in DOMAIN lst : lst[j].category = SAME_STRAND}}

\* choose_best that relabels every SAME_STRAND winner
choose_best_one_gene(lst, addr) ==
  IF Len(lst) = 0 THEN [hit |-> 0, lst |-> lst, raised |-> FALSE]
  ELSE IF \E i \in DOMAIN lst : ZeroDivision(lst[i])
       THEN [hit |-> 0, lst |-> lst, raised |-> TRUE]
  ELSE LET hit == sort_first(lst, addr)
       IN [hit |-> hit,
           lst |-> IF lst[hit].category = SAME_STRAND
                   THEN [lst EXCEPT ![hit].category = READ_THROUGH]
                   ELSE lst,
           raised |-> FALSE]

\* MatchStats.choose_best (lines 101-134).  hit is the index in lst of the
\* returned object (0: None); lst is the list afterwards, whose element hit
\* is that same object; raised tells a ZeroDivisionError.
choose_best(lst, addr) ==
  IF Len(lst) = 0 THEN [hit |-> 0, lst |-> lst, raised |-> FALSE]
  ELSE IF \E i \in DOMAIN lst : ZeroDivision(lst[i])
       THEN [hit |-> 0, lst |-> lst, raised |-> TRUE]
  ELSE LET hit == sort_first(lst, addr)
       IN [hit |-> hit,
           lst |-> IF lst[hit].category = SAME_STRAND
                      /\ Cardinality(same_strand_gene_ids(lst)) > 1
                   THEN [lst EXCEPT ![hit].category = READ_THROUGH]
                   ELSE lst,
           raised |-> FALSE]

\* ----------------------------------------- nearest-neighbor resolver
\* ClusterTree.getregions: clusters of a start-sorted sequence of intervals;
\* an interval joins the current cluster when it starts before the cluster's
\* end.  Each region is [start, end, indexes].
RECURSIVE cluster_regions(_, _, _)
cluster_regions(items, i, acc) ==
  IF i > Len(items) THEN acc
  ELSE LET f == items[i]
           n == Len(acc)
       IN IF n > 0 /\ f.start < acc[n].end
          THEN cluster_regions(items, i + 1,
                 [acc EXCEPT ![n].end = IF f.end > @ THEN f.end ELSE @,
                             ![n].indexes = Append(@, i)])
          ELSE cluster_regions(items, i + 1,
                 Append(acc, [start |-> f.start, end |-> f.end, indexes |-> <<i>>]))

\* LocusFeature of a reference transcript (lines 296-308)
LocusFeature(t) ==
  [transcript_id |-> t.transcript_id, gene_id |-> t.gene_id,
   start |-> t_start(t), end |-> t_end(t), strand |-> t.strand,
   length |-> t_length(t), num_introns |-> Len(t.exons) - 1]

\* build_locus_trees (lines 287-319): the locus intervals of a chromosome,
\* one insert_interval per member index of each region
build_locus_trees(ts) ==
  LET features == MapSeq(ref_transcripts(ts), LocusFeature)
      regions == cluster_regions(features, 1, <<>>)
  IN Flatten(MapSeq(regions,
       LAMBDA r : MapSeq(r.indexes,
         LAMBDA i : Interval(r.start, r.end, None,
                             MapSeq(r.indexes, LAMBDA k : features[k])))))

\* IntervalTree.before(position, num_intervals=1, max_dist): the nearest
\* interval lying strictly before position, if any
before(tree, position, max_dist) ==
  LET c == SelectSeq(tree, LAMBDA iv : iv.end < position /\ position - iv.end <= max_dist)
  IN IF c = <<>> THEN <<>>
     ELSE <<CHOOSE iv \in Range(c) : \A o \in Range(c) : o.end <= iv.end>>

\* IntervalTree.after(position, num_intervals=1, max_dist)
after(tree, position, max_dist) ==
  LET c == SelectSeq(tree, LAMBDA iv : iv.start > position /\ iv.start - position <= max_dist)
  IN IF c = <<>> THEN <<>>
     ELSE <<CHOOSE iv \in Range(c) : \A o \in Range(c) : o.start >= iv.start>>

\* lines 336-347: the candidates contributed by one side
side_features(hits, start, end) ==
  LET near == SelectSeq(hits,
                LAMBDA hit : Min(Abs(start - hit.end), Abs(hit.start - end)) < MAX_LOCUS_DIST)
  IN IF near = <<>> THEN <<>>
     ELSE MapSeq(near[1].value,
            LAMBDA f : [f |-> f, c |-> INTERGENIC,
                        dist |-> Min(Abs(start - f.end), Abs(f.start - end))])

\* find_nearest_transcripts (lines 321-348)
find_nearest_transcripts(start, end, strand, locus_tree) ==
  Flatten(MapSeq(find(locus_tree, start, end),
    LAMBDA hit : MapSeq(hit.value,
      LAMBDA f : [f |-> f, dist |-> 0,
                  c |-> IF cmp_strand(f.strand, strand)
                        THEN ENCOMPASSING_SAME_STRAND ELSE ENCOMPASSING_OPP_STRAND])))
  \o side_features(before(locus_tree, start, MAX_LOCUS_DIST), start, end)
  \o side_features(after(locus_tree, end, MAX_LOCUS_DIST), start, end)

\* lines 496-512: the MatchStats of one nearest candidate
nearest_match_stats(t, cand) ==
  [from_transcript(t, FALSE, t) EXCEPT
     !.ref_transcript_id = cand.f.transcript_id,
     !.ref_gene_id = cand.f.gene_id,
     !.ref_length = cand.f.length,
     !.ref_num_introns = cand.f.num_introns,
     !.shared_same_strand_bp = 0,
     !.shared_opp_strand_bp = 0,
     !.shared_introns = 0,
     !.shared_splicing = 0,
     !.category = to_str(cand.c),
     !.distance = cand.dist]

\* the row of an isolated transcript with its category left unset
isolated_match_stats_unset(t) == from_transcript(t, FALSE, t)

\* lines 490-491: the row of a transcript with no candidate at all
isolated_match_stats(t) ==
  [from_transcript(t, FALSE, t) EXCEPT !.category = to_str(INTERGENIC)]

\* ------------------------------------------------------------ the run
VARIABLES
  transcripts,        \* the transcripts of merged.srt.gtf, sorted by start
  stage,              \* the stage under way ("merge", "sort", "overlapping",
                      \* "intergenic", "combine"), "done" (returned), "error"
                      \* (an exception ended the process) or "crashed"
  pos,                \* index of the next transcript of the current pass
  intergenic_tmp,     \* intergenic.tmp.gtf: the transcripts deferred
  overlapping_best,   \* overlapping.best.tsv: rows
  overlapping,        \* overlapping.tsv: rows
  intergenic_best,    \* intergenic.best.tsv: rows
  intergenic,         \* intergenic.tsv: rows
  yielded,            \* the last (t, best_match, match_stats) of compare_locus,
                      \* while the loop at line 443 runs
  nearest,            \* the last iteration of the nearest-neighbor loop, while
                      \* the loop at line 483 runs
  inputs,             \* ref_gtf_file and test_gtf_file: [ref, test]
  merged,             \* merged.gtf
  done_files,         \* the done markers present in output_dir
  metadata,           \* metadata.txt
  metadata_best,      \* metadata.best.txt
  assembly_gtf,       \* assembly.cmp.gtf
  invocation          \* the number of this invocation of compare_assemblies

vars == <<transcripts, stage, pos, intergenic_tmp, overlapping_best, overlapping,
          intergenic_best, intergenic, yielded, nearest, inputs, merged,
          done_files, metadata, metadata_best, assembly_gtf, invocation>>

\* a transcript without its id: exons, strand, reference flag, gene id
TestShapes(E) ==
  {[ref |-> FALSE, strand |-> s, exons |-> x, gene_id |-> 0] : s \in Strands, x \in E}
RefShapes(E, G) ==
  {[ref |-> TRUE, strand |-> s, exons |-> x, gene_id |-> g]
   : s \in Strands, x \in E, g \in G}

\* transcript ids are unique: the place in the file
WithIds(f) ==
  [i \in DOMAIN f |-> [transcript_id |-> i, ref |-> f[i].ref, strand |-> f[i].strand,
                       exons |-> f[i].exons, gene_id |-> f[i].gene_id]]

\* the transcript id is whatever the GTF files give: here the reference
\* transcripts all carry the id of the first of them
WithSameRefId(f) ==
  LET first == CHOOSE i \in DOMAIN f : f[i].ref /\ \A j \in 1..(i-1) : ~f[j].ref
  IN [i \in DOMAIN f |-> [transcript_id |-> IF f[i].ref THEN first ELSE i,
                          ref |-> f[i].ref, strand |-> f[i].strand,
                          exons |-> f[i].exons, gene_id |-> f[i].gene_id]]

InsertAt(s, p, x) == SubSeq(s, 1, p - 1) \o <<x>> \o SubSeq(s, p, Len(s))

SortedByStart(f) == \A i \in 1..(Len(f) - 1) : t_start(f[i]) <= t_start(f[i+1])

\* transcript ids k+1, k+2, ... in the order of the file
WithIdsFrom(f, k) ==
  [i \in DOMAIN f |-> [transcript_id |-> k + i, ref |-> f[i].ref, strand |-> f[i].strand,
                       exons |-> f[i].exons, gene_id |-> f[i].gene_id]]

\* add_gtf_file (lines 369-398): the transcripts of a GTF file, marked as
\* reference or not
add_gtf_file(gtf_file, is_ref) == MapSeq(gtf_file, LAMBDA t : [t EXCEPT !.ref = is_ref])

\* sort_gtf: the transcripts of a file ordered by start, transcripts with the
\* same start in the order of the file
RECURSIVE sort_gtf(_)
sort_gtf(f) ==
  IF f = <<>> THEN <<>>
  ELSE LET rest == sort_gtf(SubSeq(f, 1, Len(f) - 1))
           x == f[Len(f)]
           k == Cardinality({i \in DOMAIN rest : t_start(rest[i]) <= t_start(x)})
       IN InsertAt(rest, k + 1, x)

\* the header line of a metadata file (lines 52-58, 536)
header_fields ==
  <<"transcript_id", "gene_id", "locus", "length", "num_introns",
    "ref_transcript_id", "ref_gene_id", "ref_orig_gene_id", "ref_gene_name",
    "ref_source", "ref_gene_type", "ref_locus", "ref_length", "ref_num_introns",
    "shared_same_strand_bp", "shared_opp_strand_bp", "shared_introns",
    "shared_splicing", "distance", "category">>

\* the five checkpointed stages in the order of the code, and the done
\* marker of each (lines 408, 409, 436, 475, 532)
Stages == <<"merge", "sort", "overlapping", "intergenic", "combine">>
done_file(s) ==
  CASE s = "merge" -> "merged.done"
    [] s = "sort" -> "sort.done"
    [] s = "overlapping" -> "overlapping.done"
    [] s = "intergenic" -> "intergenic.done"
    [] s = "combine" -> "done"

\* lines 410, 420, 437, 476, 533: control passes every stage whose marker
\* exists; the stage that runs after the k-th is the first one behind it
\* whose marker is absent ("done": none, the function returns)
next_stage(k, markers) ==
  LET absent == {j \in (k+1)..Len(Stages) : done_file(Stages[j]) \notin markers}
  IN IF absent = {} THEN "done"
     ELSE Stages[CHOOSE j \in absent : \A i \in absent : j <= i]

\* a file opened for appending keeps its content
open_a(content) == content

\* open(file, "w"): the file is empty afterwards
open_w(content) == <<>>

\* The inputs: merged.srt.gtf holds one test transcript (from T), at most one
\* more transcript from First and then at most one from Second, sorted by
\* start.
InputIs(ts, T, First, Second) ==
  \E test \in T :
  \E others \in {<<>>} \cup {<<a>> : a \in First} \cup {<<a, b>> : a \in First, b \in Second} :
  \E p \in 1..(Len(others) + 1) :
    /\ SortedByStart(InsertAt(others, p, test))
    /\ ts = WithIds(InsertAt(others, p, test))

\* parse_gtf: the locus (cluster of overlapping transcripts) holding t
locus_transcripts(ts, t) ==
  LET spans == MapSeq(ts, LAMBDA x : [start |-> t_start(x), end |-> t_end(x)])
      regions == cluster_regions(spans, 1, <<>>)
      r == CHOOSE r \in Range(regions) :
             \E i \in Range(r.indexes) : ts[i].transcript_id = t.transcript_id
  IN MapSeq(r.indexes, LAMBDA i : ts[i])

\* the orders in which a dict with these keys may yield them
Orderings(S) ==
  {o \in [1..Cardinality(S) -> S] : \A i, j \in DOMAIN o : o[i] = o[j] => i = j}

NoYield == [t |-> None]

\* the first invocation has merged and sorted the inputs and opened the files
\* of the overlapping stage (lines 439-442)
Begin ==
  /\ stage = "overlapping"
  /\ pos = 1
  /\ intergenic_tmp = <<>>
  /\ overlapping_best = <<>>
  /\ overlapping = <<>>
  /\ intergenic_best = <<>>
  /\ intergenic = <<>>
  /\ yielded = NoYield
  /\ nearest = NoYield
  /\ inputs = [ref |-> ref_transcripts(transcripts), test |-> test_transcripts(transcripts)]
  /\ merged = add_gtf_file(inputs.ref, TRUE) \o add_gtf_file(inputs.test, FALSE)
  /\ done_files = {done_file("merge"), done_file("sort")}
  /\ metadata = <<>>
  /\ metadata_best = <<>>
  /\ assembly_gtf = <<>>
  /\ invocation = 1

\* one test transcript, at most one reference transcript and at most one
\* more transcript, reference or test; reference gene ids are numbered in the
\* order of their first appearance
Init ==
  /\ InputIs(transcripts, TestShapes(ExonListsOf(MaxPos, MaxExons)),
             RefShapes(ExonListsOf(MaxPos, MaxExons), {1}),
             RefShapes(ExonListsOf(MaxPos, MaxExons), RefGeneIds)
               \cup TestShapes(ExonListsOf(MaxPos, MaxExons)))
  /\ Begin

\* one test transcript and at most one more transcript, reference or test,
\* with more exons
InitPair ==
  /\ InputIs(transcripts, TestShapes(ExonListsOf(PairMaxPos, PairMaxExons)),
             RefShapes(ExonListsOf(PairMaxPos, PairMaxExons), {1})
               \cup TestShapes(ExonListsOf(PairMaxPos, PairMaxExons)),
             {})
  /\ Begin

\* one test transcript and at most two single-exon reference transcripts,
\* on a longer chromosome
InitNearest ==
  /\ InputIs(transcripts, TestShapes(ExonListsOf(NearMaxPos, 2)),
             RefShapes(ExonListsOf(NearMaxPos, 1), {1}),
             RefShapes(ExonListsOf(NearMaxPos, 1), {1}))
  /\ Begin

\* one test transcript and two reference transcripts of one gene that carry
\* the same transcript id
InitSameId ==
  /\ \E test \in TestShapes(ExonListsOf(MaxPos, MaxExons)) :
     \E a, b \in RefShapes(ExonListsOf(MaxPos, MaxExons), {1}) :
     \E p \in 1..3 :
       /\ SortedByStart(InsertAt(<<a, b>>, p, test))
       /\ transcripts = WithSameRefId(InsertAt(<<a, b>>, p, test))
  /\ Begin

\* the first invocation on an empty output directory: a reference file with
\* one single-exon transcript and a test file with one or two
InitRestart ==
  /\ \E r \in RefShapes(ExonListsOf(RestartMaxPos, 1), {1}) :
     \E tests \in {<<a>> : a \in TestShapes(ExonListsOf(RestartMaxPos, 1))}
                \cup {<<a, b>> : a \in TestShapes(ExonListsOf(RestartMaxPos, 1)),
                                 b \in TestShapes(ExonListsOf(RestartMaxPos, 1))} :
       inputs = [ref |-> WithIdsFrom(<<r>>, 0), test |-> WithIdsFrom(tests, 1)]
  /\ stage = "merge"
  /\ pos = 1
  /\ merged = <<>>
  /\ transcripts = <<>>
  /\ intergenic_tmp = <<>>
  /\ overlapping_best = <<>>
  /\ overlapping = <<>>
  /\ intergenic_best = <<>>
  /\ intergenic = <<>>
  /\ metadata = <<>>
  /\ metadata_best = <<>>
  /\ assembly_gtf = <<>>
  /\ done_files = {}
  /\ yielded = NoYield
  /\ nearest = NoYield
  /\ invocation = 1

\* Control reaches stage s (or the end, "done"): the stage opens its output
\* files for writing (lines 414, 427, 439-442, 480-482); the files of the
\* combine stage are opened one by one while it runs.
Enter(s) ==
  /\ stage' = s
  /\ pos' = 1
  /\ merged' = IF s = "merge" THEN open_w(merged) ELSE merged
  /\ transcripts' = IF s = "sort" THEN open_w(transcripts) ELSE transcripts
  /\ intergenic_tmp' = IF s = "overlapping" THEN open_w(intergenic_tmp) ELSE intergenic_tmp
  /\ overlapping' = IF s = "overlapping" THEN open_w(overlapping) ELSE overlapping
  /\ overlapping_best' =
       IF s = "overlapping" THEN open_w(overlapping_best) ELSE overlapping_best
  /\ intergenic' = IF s = "intergenic" THEN open_w(intergenic) ELSE intergenic
  /\ intergenic_best' = IF s = "intergenic" THEN open_w(intergenic_best) ELSE intergenic_best

\* lines 414-418: add_gtf_file writes the reference transcripts, then the
\* test transcripts, to merged.gtf
MergeStep ==
  /\ stage = "merge"
  /\ pos \in {1, 2}
  /\ merged' = merged \o (IF pos = 1 THEN add_gtf_file(inputs.ref, TRUE)
                                      ELSE add_gtf_file(inputs.test, FALSE))
  /\ pos' = pos + 1
  /\ UNCHANGED <<transcripts, stage, intergenic_tmp, overlapping_best, overlapping,
                 intergenic_best, intergenic, yielded, nearest, inputs, done_files,
                 metadata, metadata_best, assembly_gtf, invocation>>

\* line 419: merged.gtf is closed and merged.done created
EndMerge ==
  /\ stage = "merge"
  /\ pos = 3
  /\ done_files' = done_files \cup {done_file("merge")}
  /\ Enter(next_stage(1, done_files'))
  /\ UNCHANGED <<yielded, nearest, inputs, metadata, metadata_best, assembly_gtf,
                 invocation>>

\* line 427: sort_gtf writes the next transcript of merged.srt.gtf
SortStep ==
  /\ stage = "sort"
  /\ pos <= Len(merged)
  /\ transcripts' = Append(transcripts, sort_gtf(merged)[pos])
  /\ pos' = pos + 1
  /\ UNCHANGED <<stage, intergenic_tmp, overlapping_best, overlapping,
                 intergenic_best, intergenic, yielded, nearest, inputs, merged,
                 done_files, metadata, metadata_best, assembly_gtf, invocation>>

\* lines 428-430: sort_gtf is over and sort.done created
EndSort ==
  /\ stage = "sort"
  /\ pos > Len(merged)
  /\ done_files' = done_files \cup {done_file("sort")}
  /\ Enter(next_stage(2, done_files'))
  /\ UNCHANGED <<yielded, nearest, inputs, metadata, metadata_best, assembly_gtf,
                 invocation>>

\* One iteration of the loop at line 450: compare_locus classifies the next
\* test transcript (lines 174-270) and the loop body writes its rows
\* (lines 451-465).
CompareLocusStep ==
  /\ stage = "overlapping"
  /\ pos <= Len(test_transcripts(transcripts))
  /\ \E t \in {test_transcripts(transcripts)[pos]} :
     \E locus \in {locus_transcripts(transcripts, t)} :
     \E idx \in {locus_index(locus)} :
     \E matches \in {matches_of(idx, t)} :
     \E order \in Orderings(DOMAIN matches) :
     \E addr \in Permutations1(Len(order)) :
     \E assigned \in {match_stats_of(idx, t, matches, order)} :
     \E r \in {choose_best(assigned, addr)} :
       /\ yielded' = [t |-> t.transcript_id,
                      nodes |-> split_exons(t, idx.boundaries),
                      boundaries |-> idx.boundaries,
                      locus |-> locus,
                      matches |-> matches,
                      order |-> order,
                      assigned |-> assigned,
                      addr |-> addr,
                      match_stats |-> r.lst,
                      best_match |-> r.hit]
       /\ IF r.raised \/ \E i \in DOMAIN assigned : assigned[i].category = AssertionError
          THEN /\ stage' = "error"
               /\ UNCHANGED <<pos, intergenic_tmp, overlapping_best, overlapping>>
          ELSE /\ stage' = stage
               /\ pos' = pos + 1
               /\ IF Len(r.lst) = 0
                  THEN /\ intergenic_tmp' = Append(intergenic_tmp, t)
                       /\ UNCHANGED <<overlapping_best, overlapping>>
                  ELSE /\ overlapping_best' = Append(overlapping_best, r.lst[r.hit])
                       /\ overlapping' = overlapping \o r.lst
                       /\ UNCHANGED intergenic_tmp
  /\ UNCHANGED <<transcripts, intergenic_best, intergenic, nearest, inputs, merged,
                 done_files, metadata, metadata_best, assembly_gtf, invocation>>

\* lines 466-470: the overlapping pass is over, its files are closed and
\* overlapping.done created
EndOverlapping ==
  /\ stage = "overlapping"
  /\ pos > Len(test_transcripts(transcripts))
  /\ done_files' = done_files \cup {done_file("overlapping")}
  /\ Enter(next_stage(3, done_files'))
  /\ yielded' = NoYield
  /\ UNCHANGED <<nearest, inputs, metadata, metadata_best, assembly_gtf, invocation>>

\* One iteration of the loop at lines 483-522: the nearest references of the
\* next deferred transcript, its best match and its rows.
NearestStep ==
  /\ stage = "intergenic"
  /\ pos <= Len(intergenic_tmp)
  /\ \E t \in {intergenic_tmp[pos]} :
     \E locus_trees \in {build_locus_trees(transcripts)} :
     \E nearest_transcripts \in
          {find_nearest_transcripts(t_start(t), t_end(t), t.strand, locus_trees)} :
       IF Len(nearest_transcripts) = 0
       THEN /\ nearest' = [t |-> t.transcript_id, nearest_transcripts |-> <<>>,
                           locus_trees |-> locus_trees,
                           assigned |-> <<>>, addr |-> <<>>,
                           match_stats |-> <<isolated_match_stats(t)>>, best_match |-> 1]
            /\ intergenic_best' = Append(intergenic_best, isolated_match_stats(t))
            /\ intergenic' = Append(intergenic, isolated_match_stats(t))
            /\ pos' = pos + 1
            /\ stage' = stage
       ELSE \E addr \in Permutations1(Len(nearest_transcripts)) :
            \E assigned \in {MapSeq(nearest_transcripts,
                                    LAMBDA c : nearest_match_stats(t, c))} :
            \E r \in {choose_best(assigned, addr)} :
              /\ nearest' = [t |-> t.transcript_id,
                             nearest_transcripts |-> nearest_transcripts,
                             locus_trees |-> locus_trees,
                             assigned |-> assigned, addr |-> addr,
                             match_stats |-> r.lst, best_match |-> r.hit]
              /\ IF r.raised
                 THEN /\ stage' = "error"
                      /\ UNCHANGED <<pos, intergenic_best, intergenic>>
                 ELSE /\ stage' = stage
                      /\ pos' = pos + 1
                      /\ intergenic_best' = Append(intergenic_best, r.lst[r.hit])
                      /\ intergenic' = intergenic \o r.lst
  /\ UNCHANGED <<transcripts, intergenic_tmp, overlapping_best, overlapping, yielded,
                 inputs, merged, done_files, metadata, metadata_best, assembly_gtf,
                 invocation>>

\* lines 523-526: the nearest-neighbor pass is over, its files are closed and
\* intergenic.done created
EndIntergenic ==
  /\ stage = "intergenic"
  /\ pos > Len(intergenic_tmp)
  /\ done_files' = done_files \cup {done_file("intergenic")}
  /\ Enter(next_stage(4, done_files'))
  /\ nearest' = NoYield
  /\ UNCHANGED <<yielded, inputs, metadata, metadata_best, assembly_gtf, invocation>>

\* lines 534-553: the next of the three result files is written from the
\* files of the two passes.  overlapping.gtf and intergenic.gtf hold, per
\* transcript, the best match that the best.tsv file of the pass holds.
CombineStep ==
  /\ stage = "combine"
  /\ pos \in 1..3
  /\ metadata' = IF pos = 1
                 THEN open_w(metadata) \o <<header_fields>> \o overlapping \o intergenic
                 ELSE metadata
  /\ metadata_best' = IF pos = 2
                      THEN open_w(metadata_best) \o <<header_fields>>
                             \o overlapping_best \o intergenic_best
                      ELSE metadata_best
  /\ assembly_gtf' = IF pos = 3
                     THEN open_w(assembly_gtf) \o intergenic_best \o overlapping_best
                     ELSE assembly_gtf
  /\ pos' = pos + 1
  /\ UNCHANGED <<transcripts, stage, intergenic_tmp, overlapping_best, overlapping,
                 intergenic_best, intergenic, yielded, nearest, inputs, merged,
                 done_files, invocation>>

\* lines 554-556: the marker "done" is created and compare_assemblies returns
EndCombine ==
  /\ stage = "combine"
  /\ pos = 4
  /\ done_files' = done_files \cup {done_file("combine")}
  /\ Enter(next_stage(5, done_files'))
  /\ UNCHANGED <<yielded, nearest, inputs, metadata, metadata_best, assembly_gtf,
                 invocation>>

\* The process dies at the point it has reached: the files keep what was
\* written, the markers stay, what the process held in memory is gone.
Crash ==
  /\ stage \in Range(Stages)
  /\ stage' = "crashed"
  /\ pos' = 1
  /\ yielded' = NoYield
  /\ nearest' = NoYield
  /\ UNCHANGED <<transcripts, intergenic_tmp, overlapping_best, overlapping,
                 intergenic_best, intergenic, inputs, merged, done_files, metadata,
                 metadata_best, assembly_gtf, invocation>>

\* compare_assemblies is invoked again on the same inputs and output_dir
\* (lines 400-410)
Restart ==
  /\ stage \in {"crashed", "error"}
  /\ invocation < MaxInvocations
  /\ invocation' = invocation + 1
  /\ yielded' = NoYield
  /\ nearest' = NoYield
  /\ Enter(next_stage(0, done_files))
  /\ UNCHANGED <<inputs, done_files, metadata, metadata_best, assembly_gtf>>

Next ==
  \/ CompareLocusStep \/ EndOverlapping \/ NearestStep \/ EndIntergenic
  \/ CombineStep \/ EndCombine

NextRestart ==
  \/ MergeStep \/ EndMerge \/ SortStep \/ EndSort
  \/ CompareLocusStep \/ EndOverlapping \/ NearestStep \/ EndIntergenic
  \/ CombineStep \/ EndCombine
  \/ Crash \/ Restart

Spec == Init /\ [][Next]_vars
SpecPair == InitPair /\ [][Next]_vars
SpecNearest == InitNearest /\ [][Next]_vars
SpecSameId == InitSameId /\ [][Next]_vars
SpecRestart == InitRestart /\ [][NextRestart]_vars

\* ------------------------------------------------------------- claims
\* the categories of a pair without exonic overlap
IntronicCategories == {to_str(INTRONIC_SAME_STRAND), to_str(INTRONIC_OPP_STRAND)}
InterleavingCategories ==
  {to_str(INTERLEAVING_SAME_STRAND), to_str(INTERLEAVING_OPP_STRAND)}

\* compare_locus has yielded for a test transcript and the overlapping pass
\* is still under way (the record does not change afterwards)
HasYielded == yielded.t # None /\ stage \in {"overlapping", "error"}

\* node n overlaps an intron of transcript r
overlaps_intron(n, r) ==
  \E k \in 1..(Len(r.exons) - 1) : r.exons[k][2] < n[2] /\ r.exons[k+1][1] > n[1]

\* C1: the category of every (test, reference) pair follows the precedence:
\* SAME_STRAND when the pair shares splicing, an intron or same-strand bp;
\* otherwise OPP_STRAND when it shares opposite-strand bp; otherwise an
\* intronic or interleaving category.
C1_CategoryPrecedence ==
  HasYielded =>
    \A i \in DOMAIN yielded.assigned :
      LET ms == yielded.assigned[i]
      IN IF ms.shared_splicing = 1 \/ ms.shared_introns > 0
            \/ ms.shared_same_strand_bp > 0
         THEN ms.category = to_str(SAME_STRAND)
         ELSE IF ms.shared_opp_strand_bp > 0
              THEN ms.category = to_str(OPP_STRAND)
              ELSE ms.category \in IntronicCategories \cup InterleavingCategories

\* a test transcript with a SAME_STRAND pair resting on same-strand bp alone,
\* and an OPP_STRAND pair
C1_Witness ==
  /\ HasYielded
  /\ \E i, j \in DOMAIN yielded.assigned :
       /\ yielded.assigned[i].category = to_str(SAME_STRAND)
       /\ yielded.assigned[i].shared_introns = 0
       /\ yielded.assigned[i].shared_same_strand_bp > 0
       /\ yielded.assigned[j].category = to_str(OPP_STRAND)
       /\ yielded.assigned[j].shared_opp_strand_bp > 0

\* C2: for a pair with no exonic overlap, no shared intron and no shared
\* splicing, the category is INTRONIC_* iff every node of the test
\* transcript overlaps an intron of the reference, INTERLEAVING_* iff some
\* but not all do, and the SAME_STRAND variant iff the overlapped introns are
\* on the strand of the test transcript.
C2_IntronicInterleaving ==
  HasYielded =>
    \A i \in DOMAIN yielded.assigned :
      LET ms == yielded.assigned[i]
          t == transcripts[yielded.t]
          r == transcripts[ms.ref_transcript_id]
          intronic == {k \in DOMAIN yielded.nodes : overlaps_intron(yielded.nodes[k], r)}
      IN (/\ ms.shared_same_strand_bp = 0 /\ ms.shared_opp_strand_bp = 0
          /\ ms.shared_introns = 0 /\ ms.shared_splicing = 0)
         => /\ ms.category \in IntronicCategories <=> intronic = DOMAIN yielded.nodes
            /\ ms.category \in InterleavingCategories
                 <=> (intronic # {} /\ intronic # DOMAIN yielded.nodes)
            /\ ms.category \in {to_str(INTRONIC_SAME_STRAND),
                                to_str(INTERLEAVING_SAME_STRAND)}
                 <=> (intronic # {} /\ t.strand = r.strand)
            /\ ms.category \in {to_str(INTRONIC_OPP_STRAND),
                                to_str(INTERLEAVING_OPP_STRAND)}
                 <=> (intronic # {} /\ t.strand # r.strand)

\* a test transcript with one exon inside an intron of the reference and one
\* exon beyond the reference, on the same strand
C2_Witness ==
  /\ HasYielded
  /\ \E i \in DOMAIN yielded.assigned :
       /\ yielded.assigned[i].category = to_str(INTERLEAVING_SAME_STRAND)
       /\ \E k \in DOMAIN yielded.nodes :
            ~overlaps_intron(yielded.nodes[k],
                             transcripts[yielded.assigned[i].ref_transcript_id])

\* the references of the locus, and what a test transcript shares with one
locus_refs == Range(ref_transcripts(yielded.locus))
shares_node(t, r) ==
  Range(yielded.nodes) \cap Range(split_exons(r, yielded.boundaries)) # {}
shares_intron(t, r) == Range(splicing_pattern(t)) \cap Range(splicing_pattern(r)) # {}
node_in_intron(t, r) == \E n \in Range(yielded.nodes) : overlaps_intron(n, r)
listed_refs == {yielded.assigned[i].ref_transcript_id : i \in DOMAIN yielded.assigned}

\* C3 as stated: the references in the match_stats list of a test transcript
\* are those it shares an exact node or an exact intron with, and no other.
C3_ExactSharingOnly ==
  HasYielded =>
    listed_refs = {r.transcript_id : r \in
                     {x \in locus_refs : \/ shares_node(transcripts[yielded.t], x)
                                         \/ shares_intron(transcripts[yielded.t], x)}}

\* C3, amended: the references in the match_stats list of a test transcript
\* are those it shares an exact node or an exact intron with and those with
\* an intron that a node of the test transcript overlaps, each once.
C3_SharingOrIntronOverlap ==
  HasYielded =>
    /\ listed_refs = {r.transcript_id : r \in
                        {x \in locus_refs : \/ shares_node(transcripts[yielded.t], x)
                                            \/ shares_intron(transcripts[yielded.t], x)
                                            \/ node_in_intron(transcripts[yielded.t], x)}}
    /\ Cardinality(listed_refs) = Len(yielded.assigned)

\* a reference listed for a test transcript that only lies in its intron
C3_Witness ==
  /\ HasYielded
  /\ \E r \in locus_refs :
       /\ r.transcript_id \in listed_refs
       /\ ~shares_node(transcripts[yielded.t], r)
       /\ ~shares_intron(transcripts[yielded.t], r)
       /\ node_in_intron(transcripts[yielded.t], r)

\* the call of choose_best made by the last iteration of the pass under way:
\* the list passed, the addresses of its objects, the list afterwards and the
\* result
Calls ==
  (IF HasYielded
   THEN {[lst |-> yielded.assigned, addr |-> yielded.addr,
          out |-> yielded.match_stats, hit |-> yielded.best_match]}
   ELSE {})
  \cup (IF nearest.t # None /\ stage \in {"intergenic", "error"}
           /\ Len(nearest.assigned) > 0
        THEN {[lst |-> nearest.assigned, addr |-> nearest.addr,
               out |-> nearest.match_stats, hit |-> nearest.best_match]}
        ELSE {})

\* the ranking key of a candidate (section 4.5), each component a fraction
RankingKey(m) ==
  LET total_introns == m.num_introns + m.ref_num_introns
      is(c) == IF m.category = c THEN <<1, 1>> ELSE <<0, 1>>
  IN << <<m.shared_splicing, 1>>,
        IF total_introns = 0 THEN <<0, 1>>
        ELSE <<m.shared_introns, total_introns - m.shared_introns>>,
        <<m.shared_same_strand_bp, m.length + m.ref_length - m.shared_same_strand_bp>>,
        <<m.shared_opp_strand_bp, m.length + m.ref_length - m.shared_opp_strand_bp>>,
        is(INTRONIC_SAME_STRAND), is(INTRONIC_OPP_STRAND),
        is(INTERLEAVING_SAME_STRAND), is(INTERLEAVING_OPP_STRAND),
        is(ENCOMPASSING_SAME_STRAND), is(ENCOMPASSING_OPP_STRAND),
        is(INTERGENIC), <<-Abs(m.distance), 1>> >>

\* C4: choose_best returns a candidate whose ranking key is greater than or
\* equal to the key of every candidate of the list, and no match for an
\* empty list.
C4_BestHasMaximalKey ==
  \A c \in Calls :
    IF Len(c.lst) = 0 THEN c.hit = 0
    ELSE /\ c.hit \in DOMAIN c.lst
         /\ \A keys \in {MapSeq(c.lst, RankingKey)} :
              \A j \in DOMAIN c.lst : ~KeyLess(keys[c.hit], keys[j])

\* a call with a candidate whose key is strictly below the key of the result
C4_Witness ==
  \E c \in Calls :
    /\ c.hit \in DOMAIN c.lst
    /\ \E j \in DOMAIN c.lst : KeyLess(RankingKey(c.lst[j]), RankingKey(c.lst[c.hit]))

\* the list and the addresses of a call with the objects in the order p
Permuted(c, p) ==
  [lst |-> MapSeq(p, LAMBDA i : c.lst[i]), addr |-> MapSeq(p, LAMBDA i : c.addr[i])]

\* C5: choose_best returns the same candidate object for every permutation
\* of a nonempty candidate list, equal ranking keys included.
C5_OrderIndependent ==
  \A c \in Calls :
    Len(c.lst) > 0 =>
      \A p \in Permutations1(Len(c.lst)) \ {[i \in 1..Len(c.lst) |-> i]} :
        \A d \in {Permuted(c, p)} :
          \A r \in {choose_best(d.lst, d.addr)} :
            r.hit \in DOMAIN p /\ p[r.hit] = c.hit

\* a call with two candidates of equal keys that returned the second one
C5_Witness ==
  \E c \in Calls :
    /\ Len(c.lst) = 2
    /\ KeyEq(RankingKey(c.lst[1]), RankingKey(c.lst[2]))
    /\ c.lst[1] # c.lst[2]
    /\ c.hit = 2

\* the reference gene ids of the SAME_STRAND candidates of a list
SameStrandGenes(lst) ==
  {lst[i].ref_gene_id : i \in {j \in DOMAIN lst : lst[j].category = SAME_STRAND}}

\* C6: the returned match has category READ_THROUGH iff the winning
\* candidate is SAME_STRAND and the list holds SAME_STRAND candidates of at
\* least two reference gene ids; otherwise its category is unchanged.
C6_ReadThroughIff ==
  \A c \in Calls :
    Len(c.lst) > 0 =>
      /\ c.hit \in DOMAIN c.lst
      /\ c.out[c.hit].category = READ_THROUGH
           <=> (/\ c.lst[c.hit].category = SAME_STRAND
                /\ Cardinality(SameStrandGenes(c.lst)) >= 2)
      /\ c.out[c.hit].category # READ_THROUGH
           => c.out[c.hit].category = c.lst[c.hit].category

\* a call that returned a READ_THROUGH match
C6_Witness ==
  \E c \in Calls :
    /\ c.hit \in DOMAIN c.lst
    /\ c.out[c.hit].category = READ_THROUGH
    /\ c.lst[c.hit].category = SAME_STRAND

\* the rows of overlapping.tsv written for the transcript last yielded
detail_rows ==
  SubSeq(overlapping, Len(overlapping) - Len(yielded.assigned) + 1, Len(overlapping))

\* C7: every detail row written for a test transcript carries the category
\* compare_locus assigned to that pair.
C7_DetailRowsKeepCategory ==
  (HasYielded /\ stage # "error") =>
    \A i \in DOMAIN yielded.assigned :
      detail_rows[i].category = yielded.assigned[i].category

\* the row of reference r for the transcript last yielded is marked spliced
spliced(r) ==
  \E i \in DOMAIN yielded.assigned :
    /\ yielded.assigned[i].ref_transcript_id = r.transcript_id
    /\ yielded.assigned[i].shared_splicing = 1

\* C8 as stated: the shared_splicing flag of a pair is true iff the splicing
\* patterns of the two transcripts are equal as sequences, both empty
\* included.
C8_SplicedIffPatternsEqual ==
  HasYielded =>
    \A r \in locus_refs :
      spliced(r) <=> splicing_pattern(transcripts[yielded.t]) = splicing_pattern(r)

\* C8, amended: the shared_splicing flag of a pair is true iff the splicing
\* pattern of the test transcript is not empty and equals the pattern of
\* the reference.
C8_SplicedIffNonemptyPatternsEqual ==
  HasYielded =>
    \A r \in locus_refs :
      spliced(r) <=> (/\ Len(splicing_pattern(transcripts[yielded.t])) > 0
                      /\ splicing_pattern(transcripts[yielded.t]) = splicing_pattern(r))

\* a pair of transcripts with the same two introns, marked spliced
C8_Witness ==
  /\ HasYielded
  /\ \E r \in locus_refs :
       /\ spliced(r)
       /\ Len(splicing_pattern(r)) = 2
       /\ splicing_pattern(transcripts[yielded.t]) = splicing_pattern(r)

\* the locus interval a candidate feature comes from
locus_of(f) == CHOOSE iv \in Range(nearest.locus_trees) : f \in Range(iv.value)

\* C9: the distance of every INTERGENIC candidate is the gap between the
\* transcript and the locus of the candidate,
\* min(|start - locus.end|, |locus.start - end|).
C9_DistanceIsLocusGap ==
  nearest.t # None =>
    \A k \in DOMAIN nearest.nearest_transcripts :
      LET cand == nearest.nearest_transcripts[k]
          t == transcripts[nearest.t]
      IN cand.c = INTERGENIC =>
           cand.dist = Min(Abs(t_start(t) - locus_of(cand.f).end),
                           Abs(locus_of(cand.f).start - t_end(t)))

\* the number of rows of a file that belong to a transcript
rows_of(rows, t) == Cardinality({i \in DOMAIN rows : rows[i].transcript_id = t.transcript_id})

\* C10: every test transcript gets one best-match row in the whole run: in
\* the overlapping pass iff its match list is not empty, and otherwise in
\* the nearest-neighbor pass, to which only those transcripts are sent; the
\* row of a transcript with no locus on either side is an INTERGENIC row with
\* empty reference fields.
C10_OneBestRow ==
  /\ \A t \in Range(test_transcripts(transcripts)) :
       /\ rows_of(overlapping_best, t) + rows_of(intergenic_best, t) <= 1
       /\ stage = "done" => rows_of(overlapping_best, t) + rows_of(intergenic_best, t) = 1
       /\ rows_of(overlapping_best, t) = 1 <=> rows_of(overlapping, t) > 0
       /\ rows_of(overlapping_best, t) = 1 => t \notin Range(intergenic_tmp)
       /\ rows_of(intergenic_best, t) = 1 => t \in Range(intergenic_tmp)
  /\ (nearest.t # None /\ Len(nearest.nearest_transcripts) = 0) =>
       LET row == intergenic_best[Len(intergenic_best)]
       IN /\ row.transcript_id = nearest.t
          /\ row.category = to_str(INTERGENIC)
          /\ row.ref_transcript_id = None /\ row.ref_gene_id = None

\* a finished run over two test transcripts, one with a row of the
\* overlapping pass and one with a row of the nearest-neighbor pass
C10_Witness ==
  /\ stage = "done"
  /\ Len(test_transcripts(transcripts)) = 2
  /\ Len(overlapping_best) = 1
  /\ Len(intergenic_best) = 1
final_branch(m) ==
  /\ ~m.splicing
  /\ Len(m.introns) = 0
  /\ node_bp(m.nodes[SAME_STRAND]) = 0
  /\ node_bp(m.nodes[OPP_STRAND]) = 0

num_intronic_of(m) ==
  Len(m.nodes[INTRONIC_SAME_STRAND]) + Len(m.nodes[INTRONIC_OPP_STRAND])

\* C12: an accumulator that reaches the final branch of the category
\* decision holds no SAME_STRAND node, no OPP_STRAND node and at least one
\* intronic node, so the three assertions of that branch never fail, and
\* every pair that gets a category has an exonic or an intronic overlap.
C12_AssertionsHold ==
  HasYielded =>
    /\ stage # "error"
    /\ \A ref_id \in DOMAIN yielded.matches :
         \A m \in {yielded.matches[ref_id]} :
           /\ final_branch(m) => /\ Len(m.nodes[SAME_STRAND]) = 0
                                 /\ Len(m.nodes[OPP_STRAND]) = 0
                                 /\ num_intronic_of(m) > 0
           /\ \/ Len(m.nodes[SAME_STRAND]) > 0
              \/ Len(m.nodes[OPP_STRAND]) > 0
              \/ num_intronic_of(m) > 0
    /\ \A i \in DOMAIN yielded.assigned :
         yielded.assigned[i].category # AssertionError

\* a test transcript with one pair that reached the final branch and one
\* pair that did not
C12_Witness ==
  /\ HasYielded
  /\ \E a, b \in DOMAIN yielded.matches :
       /\ final_branch(yielded.matches[a])
       /\ num_intronic_of(yielded.matches[a]) > 0
       /\ ~final_branch(yielded.matches[b])

\* the categories of the candidates find_nearest_transcripts returned
nearest_categories ==
  {nearest.nearest_transcripts[k].c : k \in DOMAIN nearest.nearest_transcripts}

\* C13: the result of find_nearest_transcripts never holds both an
\* ENCOMPASSING candidate (a locus overlapping the transcript) and an
\* INTERGENIC candidate (the nearest locus before or after it).
C13_EncompassingOrIntergenic ==
  (nearest.t # None /\ stage = "intergenic") =>
    ~(/\ nearest_categories \cap {ENCOMPASSING_SAME_STRAND, ENCOMPASSING_OPP_STRAND} # {}
      /\ INTERGENIC \in nearest_categories)

\* no two rows of a list are rows of the same reference transcript
distinct_refs(rows) ==
  \A i, j \in DOMAIN rows :
    rows[i].ref_transcript_id = rows[j].ref_transcript_id => i = j

\* C14: the detail rows written for a test transcript hold at most one
\* MatchStats per reference transcript, in the overlapping pass and in the
\* nearest-neighbor pass.
C14_OneRowPerReference ==
  /\ HasYielded => distinct_refs(yielded.match_stats)
  /\ (nearest.t # None /\ stage = "intergenic") => distinct_refs(nearest.match_stats)

\* the elements of s at the indexes I, in order
Pick(s, I) == MapSeq(SortedSeq(I), LAMBDA i : s[i])
\* the sequence of n copies of x
Copies(n, x) == [i \in 1..n |-> x]
row_ids(rows) == MapSeq(rows, LAMBDA r : r.transcript_id)

\* What one uninterrupted run writes for the inputs, as far as the inputs
\* determine it: merged.gtf, merged.srt.gtf, and for the test transcript t
\* the references it is matched with and its rows of the nearest-neighbor
\* pass.
merged_of == add_gtf_file(inputs.ref, TRUE) \o add_gtf_file(inputs.test, FALSE)
sorted_of == sort_gtf(merged_of)
matched_refs(ts, t) == DOMAIN matches_of(locus_index(locus_transcripts(ts, t)), t)
nearest_rows(ts, t) ==
  LET cands == find_nearest_transcripts(t_start(t), t_end(t), t.strand,
                                        build_locus_trees(ts))
  IN IF Len(cands) = 0 THEN <<isolated_match_stats(t)>>
     ELSE MapSeq(cands, LAMBDA c : nearest_match_stats(t, c))

\* the files of the overlapping stage are those of a complete pass: the
\* transcripts without a match deferred, one best row for each of the
\* others and one detail row for each of its references, in the order of
\* merged.srt.gtf
OverlappingComplete ==
  \A ts \in {sorted_of} :
  \A tests \in {test_transcripts(ts)} :
  \A refs \in {MapSeq(tests, LAMBDA t : matched_refs(ts, t))} :
    /\ intergenic_tmp = Pick(tests, {i \in DOMAIN tests : refs[i] = {}})
    /\ row_ids(overlapping_best)
         = row_ids(Pick(tests, {i \in DOMAIN tests : refs[i] # {}}))
    /\ row_ids(overlapping)
         = Flatten([i \in DOMAIN tests |->
                      Copies(Cardinality(refs[i]), tests[i].transcript_id)])
    /\ \A i \in DOMAIN tests :
         {overlapping[k].ref_transcript_id :
            k \in {j \in DOMAIN overlapping :
                     overlapping[j].transcript_id = tests[i].transcript_id}} = refs[i]

\* the files of the intergenic stage are those of a complete pass over the
\* deferred transcripts
IntergenicComplete ==
  \A rows \in {MapSeq(intergenic_tmp, LAMBDA t : nearest_rows(sorted_of, t))} :
    /\ intergenic = Flatten(rows)
    /\ Len(intergenic_best) = Len(intergenic_tmp)
    /\ \A i \in DOMAIN intergenic_best : intergenic_best[i] \in Range(rows[i])

\* the three result files hold the complete files of the two passes
CombineComplete ==
  /\ metadata = <<header_fields>> \o overlapping \o intergenic
  /\ metadata_best = <<header_fields>> \o overlapping_best \o intergenic_best
  /\ assembly_gtf = intergenic_best \o overlapping_best

\* the output files of a stage are completely written
StageComplete(s) ==
  CASE s = "merge" -> merged = merged_of
    [] s = "sort" -> transcripts = sorted_of
    [] s = "overlapping" -> OverlappingComplete
    [] s = "intergenic" -> IntergenicComplete
    [] s = "combine" -> CombineComplete

\* C15: over any crashes and re-invocations on the same inputs, a done marker
\* exists only when the output files of its stage are completely written; a
\* stage runs only while its marker is absent and the markers of all
\* earlier stages exist, so the stages run in the order merge, sort,
\* overlapping, intergenic, combine and none reads a partial file; and when
\* an invocation returns, all five markers exist and the files are those
\* of one uninterrupted run.
C15_RestartSafe ==
  /\ \A k \in DOMAIN Stages :
       done_file(Stages[k]) \in done_files =>
         /\ StageComplete(Stages[k])
         /\ \A j \in 1..(k-1) : done_file(Stages[j]) \in done_files
  /\ \A k \in DOMAIN Stages :
       stage = Stages[k] =>
         /\ done_file(Stages[k]) \notin done_files
         /\ \A j \in 1..(k-1) : done_file(Stages[j]) \in done_files
  /\ stage = "done" => \A k \in DOMAIN Stages : done_file(Stages[k]) \in done_files

\* an invocation that returned after two crashed ones, with rows of both
\* passes in the result files
C15_Witness ==
  /\ stage = "done"
  /\ invocation = 3
  /\ overlapping # <<>>
  /\ intergenic # <<>>
  /\ Len(metadata) = 1 + Len(overlapping) + Len(intergenic)

====
